---- MODULE Spec2Model ----
(***************************************************************************)
(* The simulated storage network of this repository.  The repository holds *)
(* three implementations of the same idea, one per source file:            *)
(*                                                                         *)
(*   "network"  src/storage_virtual_network.py                             *)
(*              StorageNode + StorageNetwork (chunk records, md5 ids)      *)
(*   "main"     src/main.py                                                *)
(*              StorageVirtualNode + StorageVirtualNetwork (chunk counter) *)
(*   "vnode"    src/storage_virtual_node.py                                *)
(*              StorageVirtualNode (node only, storage counted at the end) *)
(*                                                                         *)
(* A run of the program uses one of them; impl says which.                 *)
(***************************************************************************)
EXTENDS Integers, Sequences, FiniteSets, TLC

VARIABLES
    impl,                  \* which implementation this run executes
    ret,                   \* the last call: its name and what it returned
    sn_nodes,              \* StorageNetwork.nodes: node id -> StorageNode
    sn_transfers,          \* the FileTransfer objects StorageNode created (by reference)
    transfer_operations,   \* StorageNetwork.transfer_operations: source -> file id -> reference
    sn_time,               \* the last value time.time() returned
    svn_nodes,             \* StorageVirtualNetwork.nodes
    svn_connections,       \* StorageVirtualNetwork.connections
    svn_active_transfers,  \* StorageVirtualNetwork.active_transfers
    transfer_counter,      \* StorageVirtualNetwork.transfer_counter
    vnode,                 \* one StorageVirtualNode of storage_virtual_node.py
    driver                 \* the locals of the demo driver, when it is the caller

vars == <<impl, ret, sn_nodes, sn_transfers, transfer_operations, sn_time,
          svn_nodes, svn_connections, svn_active_transfers, transfer_counter, vnode,
          driver>>

sn_vars == <<sn_nodes, sn_transfers, transfer_operations, sn_time>>
svn_vars == <<svn_nodes, svn_connections, svn_active_transfers, transfer_counter>>

----------------------------------------------------------------------------
(* Bounds of the model and the inputs the calls are given.                 *)

MaxTransfers == 2      \* transfers created in one run
MaxTime == 1           \* distinct readings of the clock after the first
MaxStep == 2           \* largest chunks_per_step passed
MaxChunkId == 1        \* largest chunk id a caller of vnode names out of order
MaxRewind == 1         \* how far below 0 transferred_chunks is followed
MaxFileSize == 12       \* largest small file_size given to FileTransfer
MaxChunkSize == 5       \* largest small chunk_size given to FileTransfer
MaxDemoCalls == 4       \* results of process_file_transfer the driver's output keeps

MiB == 1024 * 1024

NodeIds == {"node1", "node2"}
FileNames == {"a.zip"}
Capacities == {0, 2 * MiB}            \* storage_capacity of a node of "network" and "main"
FileSizes == {0, 2 * MiB}               \* file_size and size arguments: no chunk, two chunks
LinkBandwidths == {1, 2}
NodeBandwidths == {1000}
ChunksPerStep == (-1) .. MaxStep

----------------------------------------------------------------------------
(* Python dictionaries as functions with a finite domain.                  *)

EmptyMap == [k \in {} |-> TRUE]

Put(f, k, v) == [x \in (DOMAIN f) \cup {k} |-> IF x = k THEN v ELSE f[x]]

Del(f, k) == [x \in (DOMAIN f) \ {k} |-> f[x]]

Min2(a, b) == IF a <= b THEN a ELSE b

Max2(a, b) == IF a >= b THEN a ELSE b

SetMin(S) == CHOOSE x \in S : \A y \in S : x <= y

----------------------------------------------------------------------------
(* src/storage_virtual_network.py: StorageNode, FileTransfer, StorageNetwork *)

\* md5(f"{file_name}-{time.time()}"): one id per (name, clock reading)
sn_file_id(file_name, now) == <<file_name, now>>

SN_FileIds == {sn_file_id(f, t) : f \in FileNames, t \in 0 .. MaxTime}

\* the chunk list with // for the rounding up: a last partial chunk is lost
sn_chunks_floor(file_id, file_size, chunk_size) ==
    LET num_chunks == file_size \div chunk_size
    IN [i \in 1 .. num_chunks |->
           [chunk_id |-> <<file_id, i - 1>>,
            size |-> Min2(chunk_size, file_size - (i - 1) * chunk_size),
            status |-> "pending"]]

\* FileTransfer.__init__: the chunk list
sn_chunks(file_id, file_size, chunk_size) ==
    LET num_chunks == (file_size + chunk_size - 1) \div chunk_size
    IN [i \in 1 .. num_chunks |->
           [chunk_id |-> <<file_id, i - 1>>,
            size |-> Min2(chunk_size, file_size - (i - 1) * chunk_size),
            status |-> "pending"]]

\* FileTransfer.__init__ with the default chunk_size
sn_FileTransfer(file_id, file_name, file_size, source_node_id) ==
    [file_id |-> file_id,
     file_name |-> file_name,
     file_size |-> file_size,
     source_node_id |-> source_node_id,
     chunk_size |-> MiB,
     status |-> "pending",
     chunks |-> sn_chunks(file_id, file_size, MiB)]

\* StorageNode.__init__
StorageNode(node_id, storage_capacity, bandwidth) ==
    [node_id |-> node_id,
     total_storage |-> storage_capacity,
     bandwidth |-> bandwidth,
     used_storage |-> 0,
     network_utilization |-> 0,
     connections |-> EmptyMap,
     active_transfers |-> EmptyMap]

\* allocate_storage with < for <=: a node can never be filled
sn_allocate_storage_strict(node, size) ==
    IF node.used_storage + size < node.total_storage
    THEN <<TRUE, [node EXCEPT !.used_storage = @ + size]>>
    ELSE <<FALSE, node>>

\* allocate_storage that answers without counting the size
sn_allocate_storage_unreserved(node, size) ==
    <<node.used_storage + size <= node.total_storage, node>>

\* StorageNode.allocate_storage: <<returned value, node afterwards>>
sn_allocate_storage(node, size) ==
    IF node.used_storage + size <= node.total_storage
    THEN <<TRUE, [node EXCEPT !.used_storage = @ + size]>>
    ELSE <<FALSE, node>>

\* free_storage without the max: used_storage can go below 0
sn_free_storage_unfloored(node, size) ==
    [node EXCEPT !.used_storage = @ - size]

\* StorageNode.free_storage
sn_free_storage(node, size) ==
    [node EXCEPT !.used_storage = Max2(0, @ - size)]

\* StorageNode.add_connection
sn_add_connection(node, target_node_id, bandwidth) ==
    [node EXCEPT !.connections = Put(@, target_node_id, bandwidth)]

\* process_chunk_transfer with any() for all(): completed after one chunk
sn_process_chunk_transfer_any(objs, node, file_id, chunk_id) ==
    IF file_id \notin DOMAIN node.active_transfers
    THEN [ok |-> FALSE, objs |-> objs]
    ELSE LET r == node.active_transfers[file_id]
             hit == {i \in 1 .. Len(objs[r].chunks) :
                        /\ objs[r].chunks[i].chunk_id = chunk_id
                        /\ objs[r].chunks[i].status # "completed"}
         IN IF hit = {}
            THEN [ok |-> FALSE, objs |-> objs]
            ELSE LET i == SetMin(hit)
                     chunks == [objs[r].chunks EXCEPT ![i].status = "completed"]
                     any_done == \E j \in 1 .. Len(chunks) : chunks[j].status = "completed"
                 IN [ok |-> TRUE,
                     objs |-> [objs EXCEPT ![r].chunks = chunks,
                                           ![r].status = IF any_done THEN "completed" ELSE @]]

\* StorageNode.process_chunk_transfer on the objects objs:
\* [ok |-> returned value, objs |-> the objects afterwards]
sn_process_chunk_transfer(objs, node, file_id, chunk_id) ==
    IF file_id \notin DOMAIN node.active_transfers
    THEN [ok |-> FALSE, objs |-> objs]
    ELSE LET r == node.active_transfers[file_id]
             hit == {i \in 1 .. Len(objs[r].chunks) :
                        /\ objs[r].chunks[i].chunk_id = chunk_id
                        /\ objs[r].chunks[i].status # "completed"}
         IN IF hit = {}
            THEN [ok |-> FALSE, objs |-> objs]
            ELSE LET i == SetMin(hit)
                     chunks == [objs[r].chunks EXCEPT ![i].status = "completed"]
                     all_done == \A j \in 1 .. Len(chunks) : chunks[j].status = "completed"
                 IN [ok |-> TRUE,
                     objs |-> [objs EXCEPT ![r].chunks = chunks,
                                           ![r].status = IF all_done THEN "completed" ELSE @]]

\* the for loop with <= for <: one chunk too many
RECURSIVE sn_chunk_loop_one_more(_, _, _, _, _, _, _)
sn_chunk_loop_one_more(objs, target_node, t, file_id, i, count, chunks_per_step) ==
    IF i > Len(objs[t].chunks)
    THEN [objs |-> objs, count |-> count, aborted |-> FALSE]
    ELSE IF objs[t].chunks[i].status # "completed" /\ count <= chunks_per_step
         THEN LET r == sn_process_chunk_transfer(objs, target_node, file_id,
                                                 objs[t].chunks[i].chunk_id)
              IN IF r.ok
                 THEN sn_chunk_loop_one_more(r.objs, target_node, t, file_id, i + 1,
                                             count + 1, chunks_per_step)
                 ELSE [objs |-> objs, count |-> count, aborted |-> TRUE]
         ELSE sn_chunk_loop_one_more(objs, target_node, t, file_id, i + 1, count,
                                     chunks_per_step)

\* the for loop of StorageNetwork.process_file_transfer, from chunk i on:
\* [objs, count |-> chunks_transferred, aborted |-> left by the inner return]
RECURSIVE sn_chunk_loop(_, _, _, _, _, _, _)
sn_chunk_loop(objs, target_node, t, file_id, i, count, chunks_per_step) ==
    IF i > Len(objs[t].chunks)
    THEN [objs |-> objs, count |-> count, aborted |-> FALSE]
    ELSE IF objs[t].chunks[i].status # "completed" /\ count < chunks_per_step
         THEN LET r == sn_process_chunk_transfer(objs, target_node, file_id,
                                                 objs[t].chunks[i].chunk_id)
              IN IF r.ok
                 THEN sn_chunk_loop(r.objs, target_node, t, file_id, i + 1,
                                    count + 1, chunks_per_step)
                 ELSE [objs |-> objs, count |-> count, aborted |-> TRUE]
         ELSE sn_chunk_loop(objs, target_node, t, file_id, i + 1, count, chunks_per_step)

\* StorageNetwork.get_network_stats()["active_transfers"]
sn_active_transfer_count ==
    LET RECURSIVE Sum(_)
        Sum(S) == IF S = {} THEN 0
                  ELSE LET s == CHOOSE x \in S : TRUE
                       IN Cardinality(DOMAIN transfer_operations[s]) + Sum(S \ {s})
    IN Sum(DOMAIN transfer_operations)

\* StorageNetwork.add_node with a node just constructed
SN_add_node(node_id, storage_capacity, bandwidth) ==
    /\ impl = "network"
    /\ sn_nodes' = Put(sn_nodes, node_id, StorageNode(node_id, storage_capacity, bandwidth))
    /\ ret' = [op |-> "add_node"]
    /\ UNCHANGED <<impl, sn_transfers, transfer_operations, sn_time, svn_vars, vnode>>

\* StorageNetwork.connect_nodes
SN_connect_nodes(node1_id, node2_id, bandwidth) ==
    /\ impl = "network"
    /\ IF node1_id \in DOMAIN sn_nodes /\ node2_id \in DOMAIN sn_nodes
       THEN /\ sn_nodes' =
                 LET n1 == [sn_nodes EXCEPT
                              ![node1_id] = sn_add_connection(@, node2_id, bandwidth)]
                 IN [n1 EXCEPT ![node2_id] = sn_add_connection(@, node1_id, bandwidth)]
            /\ ret' = [op |-> "connect_nodes", result |-> TRUE]
       ELSE /\ sn_nodes' = sn_nodes
            /\ ret' = [op |-> "connect_nodes", result |-> FALSE]
    /\ UNCHANGED <<impl, sn_transfers, transfer_operations, sn_time, svn_vars, vnode>>

\* StorageNode.allocate_storage called on a registered node
SN_allocate_storage(node_id, size) ==
    /\ impl = "network"
    /\ node_id \in DOMAIN sn_nodes
    /\ LET r == sn_allocate_storage(sn_nodes[node_id], size)
       IN /\ sn_nodes' = [sn_nodes EXCEPT ![node_id] = r[2]]
          /\ ret' = [op |-> "allocate_storage", result |-> r[1]]
    /\ UNCHANGED <<impl, sn_transfers, transfer_operations, sn_time, svn_vars, vnode>>

\* StorageNode.free_storage called on a registered node
SN_free_storage(node_id, size) ==
    /\ impl = "network"
    /\ node_id \in DOMAIN sn_nodes
    /\ sn_nodes' = [sn_nodes EXCEPT ![node_id] = sn_free_storage(@, size)]
    /\ ret' = [op |-> "free_storage"]
    /\ UNCHANGED <<impl, sn_transfers, transfer_operations, sn_time, svn_vars, vnode>>

\* What initiate_file_transfer returns: None, or the new transfer.  The record
\* of a call on registered nodes also keeps the target, the size asked for and
\* the free space of the target when the call began.
NoTransfer == [op |-> "initiate_file_transfer", result |-> FALSE]

Refused(target, size, free) ==
    [op |-> "initiate_file_transfer", result |-> FALSE,
     target |-> target, size |-> size, free |-> free]

Started(target, size, free, file_id) ==
    [op |-> "initiate_file_transfer", result |-> TRUE,
     target |-> target, size |-> size, free |-> free, file_id |-> file_id]

\* the guard without the source
sn_not_found_target_only(source_node_id, target_node_id) ==
    target_node_id \notin DOMAIN sn_nodes

\* the guard of StorageNetwork.initiate_file_transfer
sn_not_found(source_node_id, target_node_id) ==
    source_node_id \notin DOMAIN sn_nodes \/ target_node_id \notin DOMAIN sn_nodes

\* StorageNetwork.initiate_file_transfer, with StorageNode.initiate_file_transfer
\* inlined; now is the value time.time() returns
SN_initiate_file_transfer(source_node_id, target_node_id, file_name, file_size, now) ==
    /\ impl = "network"
    /\ Len(sn_transfers) < MaxTransfers
    /\ IF sn_not_found(source_node_id, target_node_id)
       THEN /\ ret' = NoTransfer
            /\ UNCHANGED sn_vars
       ELSE LET file_id == sn_file_id(file_name, now)
                target_node == sn_nodes[target_node_id]
                free == target_node.total_storage - target_node.used_storage
                a == sn_allocate_storage(target_node, file_size)
                ref == Len(sn_transfers) + 1
                transfer == [sn_FileTransfer(file_id, file_name, file_size, source_node_id)
                                EXCEPT !.status = "in_progress"]
            IN /\ sn_time' = now
               /\ IF a[1]
                  THEN /\ sn_transfers' = Append(sn_transfers, transfer)
                       /\ sn_nodes' = [sn_nodes EXCEPT ![target_node_id] =
                                          [a[2] EXCEPT !.active_transfers =
                                              Put(@, file_id, ref)]]
                       /\ transfer_operations' =
                              [transfer_operations EXCEPT ![source_node_id] =
                                  Put(@, file_id, ref)]
                       /\ ret' = Started(target_node_id, file_size, free, file_id)
                  ELSE /\ sn_nodes' = [sn_nodes EXCEPT ![target_node_id] = a[2]]
                       /\ UNCHANGED <<sn_transfers, transfer_operations>>
                       /\ ret' = Refused(target_node_id, file_size, free)
    /\ UNCHANGED <<impl, svn_vars, vnode>>

\* StorageNetwork.process_file_transfer
SN_process_file_transfer(source_node_id, target_node_id, file_id, chunks_per_step) ==
    /\ impl = "network"
    /\ IF \/ source_node_id \notin DOMAIN sn_nodes
          \/ target_node_id \notin DOMAIN sn_nodes
          \/ file_id \notin DOMAIN transfer_operations[source_node_id]
       THEN /\ ret' = [op |-> "process_file_transfer", result |-> <<0, FALSE>>]
            /\ UNCHANGED <<sn_transfers, transfer_operations>>
       ELSE LET t == transfer_operations[source_node_id][file_id]
                l == sn_chunk_loop(sn_transfers, sn_nodes[target_node_id], t, file_id,
                                   1, 0, chunks_per_step)
                done == ~l.aborted /\ l.objs[t].status = "completed"
            IN /\ sn_transfers' = l.objs
               /\ transfer_operations' =
                      IF done
                      THEN [transfer_operations EXCEPT ![source_node_id] = Del(@, file_id)]
                      ELSE transfer_operations
               /\ ret' = [op |-> "process_file_transfer", result |-> <<l.count, done>>]
    /\ UNCHANGED <<impl, sn_nodes, sn_time, svn_vars, vnode>>

SN_Next ==
    \/ \E n \in NodeIds, c \in Capacities, b \in NodeBandwidths : SN_add_node(n, c, b) /\ UNCHANGED driver
    \/ \E n \in NodeIds, s \in FileSizes : SN_allocate_storage(n, s) /\ UNCHANGED driver
    \/ \E n \in NodeIds, s \in FileSizes : SN_free_storage(n, s) /\ UNCHANGED driver
    \/ \E s \in NodeIds, t \in NodeIds, f \in FileNames, z \in FileSizes,
          now \in {sn_time, sn_time + 1} :
          s # t /\ now <= MaxTime /\ SN_initiate_file_transfer(s, t, f, z, now) /\ UNCHANGED driver
    \/ \E s \in NodeIds, t \in NodeIds, f \in SN_FileIds, m \in ChunksPerStep :
          SN_process_file_transfer(s, t, f, m) /\ UNCHANGED driver

----------------------------------------------------------------------------
(* src/main.py: StorageVirtualNode, FileTransfer, StorageVirtualNetwork     *)

\* math.ceil(file_size / chunk_size)
svn_ceil(file_size, chunk_size) == (file_size + chunk_size - 1) \div chunk_size

\* FileTransfer.__init__ with the default chunk_size
svn_FileTransfer(file_id, source, target, file_name, file_size) ==
    [file_id |-> file_id,
     source |-> source,
     target |-> target,
     file_name |-> file_name,
     file_size |-> file_size,
     chunk_size |-> MiB,
     total_chunks |-> svn_ceil(file_size, MiB),
     transferred_chunks |-> 0,
     completed |-> FALSE]

\* StorageVirtualNode.__init__
StorageVirtualNode(node_id, storage_capacity, bandwidth) ==
    [id |-> node_id,
     storage_capacity |-> storage_capacity,
     bandwidth |-> bandwidth,
     used_storage |-> 0,
     active_transfers |-> {}]

\* allocate_storage that adds the size before it checks
svn_allocate_storage_early(node, size) ==
    <<node.used_storage + size <= node.storage_capacity,
      [node EXCEPT !.used_storage = @ + size]>>

\* StorageVirtualNode.allocate_storage: <<returned value, node afterwards>>
svn_allocate_storage(node, size) ==
    IF node.used_storage + size <= node.storage_capacity
    THEN <<TRUE, [node EXCEPT !.used_storage = @ + size]>>
    ELSE <<FALSE, node>>

\* StorageVirtualNode.free_storage
svn_free_storage(node, size) ==
    [node EXCEPT !.used_storage = Max2(0, @ - size)]

\* the chunk counting of StorageVirtualNetwork.process_file_transfer:
\* <<chunks_to_process, transfer afterwards>>
svn_process(transfer, chunks_per_step) ==
    LET chunks_remaining == transfer.total_chunks - transfer.transferred_chunks
        chunks_to_process == Min2(chunks_per_step, chunks_remaining)
        transferred == transfer.transferred_chunks + chunks_to_process
    IN <<chunks_to_process,
         [transfer EXCEPT !.transferred_chunks = transferred,
                          !.completed = IF transferred >= transfer.total_chunks
                                        THEN TRUE ELSE @]>>

\* StorageVirtualNetwork.get_network_stats()["active_transfers"]
svn_active_count ==
    Cardinality({f \in DOMAIN svn_active_transfers : ~svn_active_transfers[f].completed})

\* StorageVirtualNetwork.add_node with a node just constructed
SVN_add_node(node_id, storage_capacity, bandwidth) ==
    /\ impl = "main"
    /\ svn_nodes' = Put(svn_nodes, node_id,
                        StorageVirtualNode(node_id, storage_capacity, bandwidth))
    /\ ret' = [op |-> "add_node"]
    /\ UNCHANGED <<impl, svn_connections, svn_active_transfers, transfer_counter,
                   sn_vars, vnode>>

\* StorageVirtualNetwork.connect_nodes
SVN_connect_nodes(node1_id, node2_id, bandwidth) ==
    /\ impl = "main"
    /\ svn_connections' = Put(svn_connections, <<node1_id, node2_id>>,
                              [bandwidth |-> bandwidth, utilized |-> 0])
    /\ ret' = [op |-> "connect_nodes"]
    /\ UNCHANGED <<impl, svn_nodes, svn_active_transfers, transfer_counter,
                   sn_vars, vnode>>

\* StorageVirtualNode.allocate_storage called on a registered node
SVN_allocate_storage(node_id, size) ==
    /\ impl = "main"
    /\ node_id \in DOMAIN svn_nodes
    /\ LET r == svn_allocate_storage(svn_nodes[node_id], size)
       IN /\ svn_nodes' = [svn_nodes EXCEPT ![node_id] = r[2]]
          /\ ret' = [op |-> "allocate_storage", result |-> r[1]]
    /\ UNCHANGED <<impl, svn_connections, svn_active_transfers, transfer_counter,
                   sn_vars, vnode>>

\* StorageVirtualNode.free_storage called on a registered node
SVN_free_storage(node_id, size) ==
    /\ impl = "main"
    /\ node_id \in DOMAIN svn_nodes
    /\ svn_nodes' = [svn_nodes EXCEPT ![node_id] = svn_free_storage(@, size)]
    /\ ret' = [op |-> "free_storage"]
    /\ UNCHANGED <<impl, svn_connections, svn_active_transfers, transfer_counter,
                   sn_vars, vnode>>

\* the guard of StorageVirtualNetwork.initiate_file_transfer
svn_not_found(source_node_id, target_node_id) ==
    source_node_id \notin DOMAIN svn_nodes \/ target_node_id \notin DOMAIN svn_nodes

\* StorageVirtualNetwork.initiate_file_transfer; the id "transfer_<n>" is n
SVN_initiate_file_transfer(source_node_id, target_node_id, file_name, file_size) ==
    /\ impl = "main"
    /\ transfer_counter < MaxTransfers
    /\ IF svn_not_found(source_node_id, target_node_id)
       THEN /\ ret' = NoTransfer
            /\ UNCHANGED svn_vars
       ELSE LET target == svn_nodes[target_node_id]
                free == target.storage_capacity - target.used_storage
                a == svn_allocate_storage(target, file_size)
                file_id == transfer_counter
            IN IF a[1]
               THEN /\ svn_nodes' = [svn_nodes EXCEPT ![target_node_id] = a[2]]
                    /\ transfer_counter' = transfer_counter + 1
                    /\ svn_active_transfers' =
                           Put(svn_active_transfers, file_id,
                               svn_FileTransfer(file_id, source_node_id, target_node_id,
                                                file_name, file_size))
                    /\ ret' = Started(target_node_id, file_size, free, file_id)
                    /\ UNCHANGED svn_connections
               ELSE /\ svn_nodes' = [svn_nodes EXCEPT ![target_node_id] = a[2]]
                    /\ ret' = Refused(target_node_id, file_size, free)
                    /\ UNCHANGED <<svn_connections, svn_active_transfers,
                                   transfer_counter>>
    /\ UNCHANGED <<impl, sn_vars, vnode>>

\* StorageVirtualNetwork.process_file_transfer
SVN_process_file_transfer(source_node_id, target_node_id, file_id, chunks_per_step) ==
    /\ impl = "main"
    /\ IF file_id \notin DOMAIN svn_active_transfers
       THEN /\ ret' = [op |-> "process_file_transfer", result |-> <<0, TRUE>>]
            /\ UNCHANGED svn_active_transfers
       ELSE IF svn_active_transfers[file_id].completed
            THEN /\ ret' = [op |-> "process_file_transfer", result |-> <<0, TRUE>>]
                 /\ UNCHANGED svn_active_transfers
            ELSE LET r == svn_process(svn_active_transfers[file_id], chunks_per_step)
                 IN /\ r[2].transferred_chunks >= -MaxRewind
                    /\ svn_active_transfers' =
                           [svn_active_transfers EXCEPT ![file_id] = r[2]]
                    /\ ret' = [op |-> "process_file_transfer",
                               result |-> <<r[1], r[2].completed>>]
    /\ UNCHANGED <<impl, svn_nodes, svn_connections, transfer_counter, sn_vars, vnode>>

SVN_Next ==
    \/ \E n \in NodeIds, c \in Capacities, b \in NodeBandwidths : SVN_add_node(n, c, b) /\ UNCHANGED driver
    \/ \E n \in NodeIds, s \in FileSizes : SVN_allocate_storage(n, s) /\ UNCHANGED driver
    \/ \E n \in NodeIds, s \in FileSizes : SVN_free_storage(n, s) /\ UNCHANGED driver
    \/ \E s \in NodeIds, t \in NodeIds, f \in FileNames, z \in FileSizes :
          s # t /\ SVN_initiate_file_transfer(s, t, f, z) /\ UNCHANGED driver
    \/ \E s \in NodeIds, t \in NodeIds, f \in 0 .. MaxTransfers, m \in ChunksPerStep :
          SVN_process_file_transfer(s, t, f, m) /\ UNCHANGED driver

----------------------------------------------------------------------------
(* src/storage_virtual_node.py: StorageVirtualNode                          *)
(* The node is the one its _init_ has set up.  Its callers give every       *)
(* transfer an id of its own and send a chunk that is still pending, or a   *)
(* chunk id the transfer does not have.                                     *)

V_FileIds == {"f1", "f2"}
V_Sources == {"node1"}
V_StorageCapacities == {0, 1}                 \* storage_capacity, in GB
V_Bandwidths == {1000}                        \* bandwidth, in Mbps
V_LinkBandwidths == {1}
V_FileSizes == {0, 1, 520 * MiB}              \* no chunk, one chunk, 52 chunks

\* StorageVirtualNode._calculate_chunk_size
vn_calculate_chunk_size(file_size) ==
    IF file_size < 10 * 1024 * 1024 THEN 512 * 1024
    ELSE IF file_size < 100 * 1024 * 1024 THEN 2 * 1024 * 1024
    ELSE 10 * 1024 * 1024

\* StorageVirtualNode._generate_chunks
vn_generate_chunks(file_id, file_size) ==
    LET chunk_size == vn_calculate_chunk_size(file_size)
        num_chunks == (file_size + chunk_size - 1) \div chunk_size
    IN [i \in 1 .. num_chunks |->
           [chunk_id |-> i - 1,
            size |-> Min2(chunk_size, file_size - (i - 1) * chunk_size),
            checksum |-> <<file_id, i - 1>>,
            status |-> "PENDING",
            stored_node |-> "None"]]

\* StorageVirtualNode._init_
vn_init(node_id, storage_capacity, bandwidth) ==
    [node_id |-> node_id,
     total_storage |-> storage_capacity * 1024 * 1024 * 1024,
     bandwidth |-> bandwidth * 1000000,
     used_storage |-> 0,
     active_transfers |-> EmptyMap,
     stored_files |-> EmptyMap,
     network_utilization |-> 0,
     total_requests_processed |-> 0,
     total_data_transferred |-> 0,
     connections |-> EmptyMap]

\* connections.get(source_node, 0)
vn_link(node, source_node) ==
    IF source_node \in DOMAIN node.connections THEN node.connections[source_node] ELSE 0

\* available_bw * 0.8; the bandwidths are multiples of 10^6, where this is exact
vn_utilized(available_bw) == (available_bw * 8) \div 10

\* the chunk ids a caller sends for file_id: the first pending chunk, a pending
\* chunk up to MaxChunkId, and an id the transfer does not have
vn_chunk_ids(file_id) ==
    IF file_id \notin DOMAIN vnode.active_transfers
    THEN {0}
    ELSE LET chunks == vnode.active_transfers[file_id].chunks
             n == Len(chunks)
             pending == {i \in 0 .. n - 1 : chunks[i + 1].status = "PENDING"}
             first == IF pending = {} THEN {} ELSE {SetMin(pending)}
         IN first \cup {i \in pending : i <= MaxChunkId} \cup {n}

\* StorageVirtualNode.add_connection
VN_add_connection(node_id, bandwidth) ==
    /\ impl = "vnode"
    /\ vnode' = [vnode EXCEPT !.connections = Put(@, node_id, bandwidth * 1000000)]
    /\ ret' = [op |-> "add_connection"]
    /\ UNCHANGED <<impl, sn_vars, svn_vars>>

\* the check of StorageVirtualNode.initiate_file_transfer,
\* used_storage + file_size > total_storage
vn_too_large(node, file_size) ==
    file_size > node.total_storage - node.used_storage

\* StorageVirtualNode.initiate_file_transfer
VN_initiate_file_transfer(file_id, file_name, file_size, source_node) ==
    /\ impl = "vnode"
    /\ file_id \notin (DOMAIN vnode.active_transfers) \cup (DOMAIN vnode.stored_files)
    /\ LET free == vnode.total_storage - vnode.used_storage
       IN IF vn_too_large(vnode, file_size)
          THEN /\ ret' = Refused(vnode.node_id, file_size, free)
               /\ UNCHANGED vnode
          ELSE LET transfer == [file_id |-> file_id,
                                file_name |-> file_name,
                                total_size |-> file_size,
                                chunks |-> vn_generate_chunks(file_id, file_size),
                                status |-> "PENDING"]
               IN /\ vnode' = [vnode EXCEPT !.active_transfers = Put(@, file_id, transfer)]
                  /\ ret' = Started(vnode.node_id, file_size, free, file_id)
    /\ UNCHANGED <<impl, sn_vars, svn_vars>>

\* StorageVirtualNode.process_chunk_transfer
VN_process_chunk_transfer(file_id, chunk_id, source_node) ==
    /\ impl = "vnode"
    /\ IF file_id \notin DOMAIN vnode.active_transfers
       THEN /\ ret' = [op |-> "process_chunk_transfer", result |-> FALSE]
            /\ UNCHANGED vnode
       ELSE LET transfer == vnode.active_transfers[file_id]
                found == {i \in 1 .. Len(transfer.chunks) :
                             transfer.chunks[i].chunk_id = chunk_id}
                available_bw == Min2(vnode.bandwidth - vnode.network_utilization,
                                     vn_link(vnode, source_node))
            IN IF found = {} \/ available_bw <= 0
               THEN /\ ret' = [op |-> "process_chunk_transfer", result |-> FALSE]
                    /\ UNCHANGED vnode
               ELSE LET i == SetMin(found)
                        chunks == [transfer.chunks EXCEPT
                                      ![i].status = "COMPLETED",
                                      ![i].stored_node = vnode.node_id]
                        all_done == \A j \in 1 .. Len(chunks) :
                                       chunks[j].status = "COMPLETED"
                        sent == [vnode EXCEPT
                                    !.network_utilization = @ + vn_utilized(available_bw),
                                    !.total_data_transferred = @ + transfer.chunks[i].size]
                        done == [transfer EXCEPT !.chunks = chunks,
                                                 !.status = "COMPLETED"]
                    IN /\ vnode' =
                           IF all_done
                           THEN [sent EXCEPT
                                    !.used_storage = @ + transfer.total_size,
                                    !.stored_files = Put(@, file_id, done),
                                    !.active_transfers = Del(@, file_id),
                                    !.total_requests_processed = @ + 1]
                           ELSE [sent EXCEPT !.active_transfers[file_id].chunks = chunks]
                       /\ ret' = [op |-> "process_chunk_transfer", result |-> TRUE]
    /\ UNCHANGED <<impl, sn_vars, svn_vars>>

VN_Next ==
    \/ \E n \in V_Sources, b \in V_LinkBandwidths : VN_add_connection(n, b) /\ UNCHANGED driver
    \/ \E f \in V_FileIds, n \in FileNames, z \in V_FileSizes, s \in V_Sources :
          VN_initiate_file_transfer(f, n, z, s) /\ UNCHANGED driver
    \/ \E f \in V_FileIds, s \in V_Sources :
          \E c \in vn_chunk_ids(f) : VN_process_chunk_transfer(f, c, s) /\ UNCHANGED driver

----------------------------------------------------------------------------

\* get_storage_utilization, which changes nothing, as a function of the node.
\* a / b * 100 is kept as the fraction it is, <<a, b>>; a division by zero
\* raises ZeroDivisionError: the call faults and returns nothing.
Percent(a, b) == <<a, b>>

ZeroDivisionError == [fault |-> TRUE]

\* StorageNode.get_storage_utilization
sn_get_storage_utilization(node) ==
    [fault |-> FALSE,
     used |-> node.used_storage,
     capacity |-> node.total_storage,
     utilization_percent |->
        IF node.total_storage > 0
        THEN Percent(node.used_storage, node.total_storage) ELSE Percent(0, 1)]

\* StorageVirtualNode.get_storage_utilization of main.py
svn_get_storage_utilization(node) ==
    IF node.storage_capacity = 0
    THEN ZeroDivisionError
    ELSE [fault |-> FALSE,
          used |-> node.used_storage,
          capacity |-> node.storage_capacity,
          utilization_percent |-> Percent(node.used_storage, node.storage_capacity)]

\* StorageVirtualNode.get_storage_utilization of storage_virtual_node.py
vn_get_storage_utilization(node) ==
    IF node.total_storage = 0
    THEN ZeroDivisionError
    ELSE [fault |-> FALSE,
          used_bytes |-> node.used_storage,
          total_bytes |-> node.total_storage,
          utilization_percent |-> Percent(node.used_storage, node.total_storage),
          files_stored |-> Cardinality(DOMAIN node.stored_files),
          active_transfers |-> Cardinality(DOMAIN node.active_transfers)]

\* no driver: the calls come from any caller
NoDriver == [file_size |-> 0, chunks_per_step |-> 0]

Init ==
    /\ impl \in {"network", "main", "vnode"}
    /\ ret = [op |-> "none"]
    /\ sn_nodes = EmptyMap
    /\ sn_transfers = <<>>
    /\ transfer_operations = [s \in NodeIds |-> EmptyMap]
    /\ sn_time = 0
    /\ svn_nodes = EmptyMap
    /\ svn_connections = EmptyMap
    /\ svn_active_transfers = EmptyMap
    /\ transfer_counter = 0
    /\ \E c \in V_StorageCapacities, b \in V_Bandwidths :
          /\ vnode = vn_init("node2", c, b)
          /\ impl # "vnode" => c = 1
    /\ driver = NoDriver

Next == SN_Next \/ SVN_Next \/ VN_Next

Spec == Init /\ [][Next]_vars

\* The links between nodes.  No call of "network" or "main" above reads them,
\* so they are followed on their own, with the registration of the nodes.
Links_Next ==
    \/ \E n \in NodeIds, c \in Capacities, b \in NodeBandwidths : SN_add_node(n, c, b) /\ UNCHANGED driver
    \/ \E a \in NodeIds, b \in NodeIds, bw \in LinkBandwidths : SN_connect_nodes(a, b, bw) /\ UNCHANGED driver
    \/ \E n \in NodeIds, c \in Capacities, b \in NodeBandwidths : SVN_add_node(n, c, b) /\ UNCHANGED driver
    \/ \E a \in NodeIds, b \in NodeIds, bw \in LinkBandwidths : SVN_connect_nodes(a, b, bw) /\ UNCHANGED driver

SpecLinks == Init /\ [][Links_Next]_vars

\* The splitting of a file into chunks, on its own: FileTransfer(...) of
\* storage_virtual_network.py with a chunk_size of the caller's, and
\* _generate_chunks of storage_virtual_node.py.  ret holds the arguments of the
\* call, and then what the call built.
CK_FileSizes == 0 .. MaxFileSize
CK_ChunkSizes == 1 .. MaxChunkSize
CK_DefaultFileSizes == {1, MiB - 1, MiB, MiB + 1, 2 * MiB, 3 * MiB + 5}
CK_NodeFileSizes ==
    {0, 1, 512 * 1024 - 1, 512 * 1024, 512 * 1024 + 1, MiB, MiB + 1,
     10 * MiB - 1, 10 * MiB, 10 * MiB + 1, 12 * MiB,
     100 * MiB - 1, 100 * MiB, 100 * MiB + 1, 105 * MiB}

Chunks_Init ==
    /\ Init
    /\ impl \in {"network", "vnode"}

Chunks_args ==
    /\ ret.op = "none"
    /\ \/ /\ impl = "network"
          /\ \/ \E z \in CK_FileSizes, c \in CK_ChunkSizes :
                   ret' = [op |-> "args", file_size |-> z, chunk_size |-> c]
             \/ \E z \in CK_DefaultFileSizes :
                   ret' = [op |-> "args", file_size |-> z, chunk_size |-> MiB]
       \/ /\ impl = "vnode"
          /\ \E z \in CK_NodeFileSizes : ret' = [op |-> "args", file_size |-> z]
    /\ UNCHANGED <<impl, sn_vars, svn_vars, vnode>>

\* FileTransfer(file_id, file_name, file_size, source_node_id, chunk_size).chunks
SN_FileTransfer_chunks(file_id) ==
    /\ impl = "network"
    /\ ret.op = "args"
    /\ ret' = [op |-> "chunks", file_size |-> ret.file_size,
               chunk_size |-> ret.chunk_size,
               chunks |-> sn_chunks(file_id, ret.file_size, ret.chunk_size)]
    /\ UNCHANGED <<impl, sn_vars, svn_vars, vnode>>

\* StorageVirtualNode._generate_chunks(file_id, file_size)
VN_generate_chunks(file_id) ==
    /\ impl = "vnode"
    /\ ret.op = "args"
    /\ ret' = [op |-> "chunks", file_size |-> ret.file_size,
               chunk_size |-> vn_calculate_chunk_size(ret.file_size),
               chunks |-> vn_generate_chunks(file_id, ret.file_size)]
    /\ UNCHANGED <<impl, sn_vars, svn_vars, vnode>>

Chunks_Next ==
    \/ Chunks_args /\ UNCHANGED driver
    \/ \E f \in SN_FileIds : SN_FileTransfer_chunks(f) /\ UNCHANGED driver
    \/ \E f \in V_FileIds : VN_generate_chunks(f) /\ UNCHANGED driver

SpecChunks == Chunks_Init /\ [][Chunks_Next]_vars

\* The demo driver at the end of storage_virtual_network.py and main() of
\* main.py: two nodes, a link, one transfer from node1 to node2, and a loop
\* that calls process_file_transfer until it returns completed.  The driver
\* is sequential: what it does next follows from its last call, ret.
\* driver.transfer is its local transfer (<<>> for None), driver.out the first
\* results it printed, driver.advancing the calls that moved a chunk.
DemoFileSizes == {0, 1, 2 * MiB, 100 * MiB}
DemoSteps == {1, 3}
DemoUnits == {1, MiB}       \* main() passes 500 and 1000; the other driver MiB

Demo_Init ==
    /\ impl \in {"network", "main"}
    /\ ret = [op |-> "none"]
    /\ sn_nodes = EmptyMap
    /\ sn_transfers = <<>>
    /\ transfer_operations = [s \in NodeIds |-> EmptyMap]
    /\ sn_time = 0
    /\ svn_nodes = EmptyMap
    /\ svn_connections = EmptyMap
    /\ svn_active_transfers = EmptyMap
    /\ transfer_counter = 0
    /\ vnode = vn_init("node2", 1, 1000)
    /\ \E z \in DemoFileSizes, m \in DemoSteps :
          driver = [file_size |-> z, chunks_per_step |-> m,
                    transfer |-> <<>>, out |-> <<>>, advancing |-> 0]

demo_nodes == IF impl = "network" THEN DOMAIN sn_nodes ELSE DOMAIN svn_nodes

Demo_add_node1 ==
    /\ ret.op = "none"
    /\ \/ SN_add_node("node1", 500 * MiB, 1000000000)
       \/ \E u \in DemoUnits : SVN_add_node("node1", 500 * u, 1000)
    /\ UNCHANGED driver

Demo_add_node2 ==
    /\ ret.op = "add_node"
    /\ "node2" \notin demo_nodes
    /\ \/ SN_add_node("node2", 1000 * MiB, 2000000000)
       \/ \E u \in DemoUnits : SVN_add_node("node2", 1000 * u, 2000)
    /\ UNCHANGED driver

Demo_connect_nodes ==
    /\ ret.op = "add_node"
    /\ "node2" \in demo_nodes
    /\ \/ SN_connect_nodes("node1", "node2", 1000000000)
       \/ SVN_connect_nodes("node1", "node2", 1000)
    /\ UNCHANGED driver

Demo_initiate_file_transfer ==
    /\ ret.op = "connect_nodes"
    /\ \/ SN_initiate_file_transfer("node1", "node2", "large_dataset.zip",
                                    driver.file_size, sn_time)
       \/ SVN_initiate_file_transfer("node1", "node2", "large_dataset.zip",
                                     driver.file_size)
    /\ driver' = [driver EXCEPT
                     !.transfer = IF ret'.result THEN <<ret'.file_id>> ELSE <<>>]

\* one turn of the while loop
Demo_process_file_transfer ==
    /\ driver.transfer # <<>>
    /\ \/ ret.op = "initiate_file_transfer"
       \/ ret.op = "process_file_transfer" /\ ~ret.result[2]
    /\ \/ SN_process_file_transfer("node1", "node2", driver.transfer[1],
                                   driver.chunks_per_step)
       \/ SVN_process_file_transfer("node1", "node2", driver.transfer[1],
                                    driver.chunks_per_step)
    /\ driver' = [driver EXCEPT
                     !.out = IF Len(@) < MaxDemoCalls THEN Append(@, ret'.result) ELSE @,
                     !.advancing = IF ret'.result[1] >= 1 THEN @ + 1 ELSE @]

Demo_Next ==
    \/ Demo_add_node1
    \/ Demo_add_node2
    \/ Demo_connect_nodes
    \/ Demo_initiate_file_transfer
    \/ Demo_process_file_transfer

SpecDemo == Demo_Init /\ [][Demo_Next]_vars

\* The driver runs on: its loop has no exit but the completed result.  Its
\* runs with the files of at most two chunks are followed to their end.
Demo_SmallInit == Demo_Init /\ driver.file_size <= 2 * MiB

SpecDemoFair == Demo_SmallInit /\ [][Demo_Next]_vars /\ WF_vars(Demo_Next)

----------------------------------------------------------------------------
(* The claims.  A property of one call is stated of the steps that are that *)
(* call: unprimed variables are the state before it, primed ones the state  *)
(* after it, and ret' is what it returned.                                  *)

sn_done(transfer) ==
    {i \in 1 .. Len(transfer.chunks) : transfer.chunks[i].status = "completed"}

sn_pending(transfer) ==
    {i \in 1 .. Len(transfer.chunks) : transfer.chunks[i].status # "completed"}

\* the k lowest elements of S
Lowest(S, k) == {i \in S : Cardinality({j \in S : j < i}) < k}

\* file_id is a transfer of the network from source that target holds
sn_held(source, target, file_id) ==
    /\ source \in DOMAIN sn_nodes
    /\ target \in DOMAIN sn_nodes
    /\ file_id \in DOMAIN transfer_operations[source]
    /\ file_id \in DOMAIN sn_nodes[target].active_transfers
    /\ sn_nodes[target].active_transfers[file_id] = transfer_operations[source][file_id]

\* C1: in every reachable state every node has 0 <= used_storage <= its capacity.
C1_UsedWithinCapacity ==
    /\ \A n \in DOMAIN sn_nodes :
          /\ 0 <= sn_nodes[n].used_storage
          /\ sn_nodes[n].used_storage <= sn_nodes[n].total_storage
    /\ \A n \in DOMAIN svn_nodes :
          /\ 0 <= svn_nodes[n].used_storage
          /\ svn_nodes[n].used_storage <= svn_nodes[n].storage_capacity
    /\ 0 <= vnode.used_storage
    /\ vnode.used_storage <= vnode.total_storage

\* C2: of two initiations on the same target, one right after the other, the
\* second does not succeed when the two sizes together exceed the free space
\* the target had when the first began.
C2_NoDoubleReservation ==
    [][~(/\ ret.op = "initiate_file_transfer"
         /\ ret.result
         /\ ret'.op = "initiate_file_transfer"
         /\ ret'.result
         /\ ret'.target = ret.target
         /\ ret.size + ret'.size > ret.free)]_vars

\* C3: allocate_storage(size) returns true iff used_storage + size <= capacity
\* held before the call; then used_storage has grown by size, and otherwise it
\* is unchanged.
C3_AllocateIffFits ==
    [][/\ ret'.op = "allocate_storage" /\ impl = "network" =>
            \A n \in DOMAIN sn_nodes, z \in FileSizes :
               SN_allocate_storage(n, z) =>
                  /\ ret'.result =
                        (sn_nodes[n].used_storage + z <= sn_nodes[n].total_storage)
                  /\ sn_nodes'[n].used_storage =
                        sn_nodes[n].used_storage + (IF ret'.result THEN z ELSE 0)
       /\ ret'.op = "allocate_storage" /\ impl = "main" =>
            \A n \in DOMAIN svn_nodes, z \in FileSizes :
               SVN_allocate_storage(n, z) =>
                  /\ ret'.result =
                        (svn_nodes[n].used_storage + z <= svn_nodes[n].storage_capacity)
                  /\ svn_nodes'[n].used_storage =
                        svn_nodes[n].used_storage + (IF ret'.result THEN z ELSE 0)
      ]_vars

\* a node is full and a call of allocate_storage has been refused
C3_Refused ==
    /\ ret.op = "allocate_storage"
    /\ ~ret.result
    /\ \E n \in DOMAIN sn_nodes :
          sn_nodes[n].total_storage > 0
          /\ sn_nodes[n].used_storage = sn_nodes[n].total_storage

\* C4: process_file_transfer with an id the network does not know, or the id
\* of a transfer that has completed, returns (0, true) and changes nothing.
C4_UnknownIsDone ==
    [][/\ ret'.op = "process_file_transfer" /\ impl = "network" =>
            \A f \in SN_FileIds :
               (\A x \in NodeIds : f \notin DOMAIN transfer_operations[x]) =>
                  \A s \in NodeIds, t \in NodeIds, m \in ChunksPerStep :
                     SN_process_file_transfer(s, t, f, m) =>
                        ret'.result = <<0, TRUE>> /\ UNCHANGED sn_vars
       /\ ret'.op = "process_file_transfer" /\ impl = "main" =>
            \A f \in 0 .. MaxTransfers :
               (f \in DOMAIN svn_active_transfers => svn_active_transfers[f].completed) =>
                  \A s \in NodeIds, t \in NodeIds, m \in ChunksPerStep :
                     SVN_process_file_transfer(s, t, f, m) =>
                        ret'.result = <<0, TRUE>> /\ UNCHANGED svn_vars
      ]_vars

C6_CompletionRemoves ==
    [][/\ ret'.op = "process_file_transfer" /\ impl = "network" =>
            \A s \in NodeIds : \A f \in DOMAIN transfer_operations[s] :
               LET ref == transfer_operations[s][f]
               IN (/\ sn_pending(sn_transfers[ref]) # {}
                   /\ sn_pending(sn_transfers'[ref]) = {}) =>
                     \A t \in NodeIds, m \in ChunksPerStep :
                        SN_process_file_transfer(s, t, f, m) =>
                           /\ sn_transfers'[ref].status = "completed"
                           /\ ret'.result[2] = TRUE
                           /\ f \notin DOMAIN transfer_operations'[s]
                           /\ sn_active_transfer_count' = sn_active_transfer_count - 1
       /\ ret'.op = "process_file_transfer" /\ impl = "main" =>
            \A f \in DOMAIN svn_active_transfers :
               (/\ svn_active_transfers[f].transferred_chunks
                      < svn_active_transfers[f].total_chunks
                /\ svn_active_transfers'[f].transferred_chunks
                      >= svn_active_transfers'[f].total_chunks) =>
                  /\ svn_active_transfers'[f].completed
                  /\ ret'.result[2] = TRUE
                  /\ f \notin DOMAIN svn_active_transfers'
                  /\ svn_active_count' = svn_active_count - 1
      ]_vars

\* C7: the transfers a network has created have pairwise different ids, and
\* none has been overwritten by a later one.
C7_UniqueTransferIds ==
    /\ \A i \in 1 .. Len(sn_transfers), j \in 1 .. Len(sn_transfers) :
          i # j => sn_transfers[i].file_id # sn_transfers[j].file_id
    /\ Cardinality(DOMAIN svn_active_transfers) = transfer_counter
    /\ \A f \in DOMAIN svn_active_transfers : svn_active_transfers[f].file_id = f

\* C8: initiate_file_transfer with a file_size above the target's free space
\* returns no transfer, leaves used_storage as it was and registers nothing,
\* in the network and in the node.
C8_TooLargeIsRefused ==
    [][/\ ret'.op = "initiate_file_transfer" /\ impl = "network" =>
            \A s \in DOMAIN sn_nodes, t \in DOMAIN sn_nodes, z \in FileSizes :
               z > sn_nodes[t].total_storage - sn_nodes[t].used_storage =>
                  \A f \in FileNames, now \in 0 .. MaxTime :
                     SN_initiate_file_transfer(s, t, f, z, now) =>
                        /\ ~ret'.result
                        /\ UNCHANGED <<sn_nodes, sn_transfers, transfer_operations>>
       /\ ret'.op = "initiate_file_transfer" /\ impl = "main" =>
            \A s \in DOMAIN svn_nodes, t \in DOMAIN svn_nodes, z \in FileSizes :
               z > svn_nodes[t].storage_capacity - svn_nodes[t].used_storage =>
                  \A f \in FileNames :
                     SVN_initiate_file_transfer(s, t, f, z) =>
                        ~ret'.result /\ UNCHANGED svn_vars
       /\ ret'.op = "initiate_file_transfer" /\ impl = "vnode" =>
            \A z \in V_FileSizes :
               z > vnode.total_storage - vnode.used_storage =>
                  \A f \in V_FileIds, n \in FileNames, s \in V_Sources :
                     VN_initiate_file_transfer(f, n, z, s) =>
                        ~ret'.result /\ UNCHANGED vnode
      ]_vars

\* an initiation has been refused for a size above the free space of its target
C8_RefusedForSpace ==
    /\ ret.op = "initiate_file_transfer"
    /\ ~ret.result
    /\ "size" \in DOMAIN ret
    /\ ret.size > ret.free

\* C9: initiate_file_transfer with a source or a target that is not registered
\* returns no transfer and changes nothing: no node, no transfer, no id.
C9_UnknownNodeIsRefused ==
    [][/\ ret'.op = "initiate_file_transfer" /\ impl = "network" =>
            \A s \in NodeIds, t \in NodeIds :
               (s \notin DOMAIN sn_nodes \/ t \notin DOMAIN sn_nodes) =>
                  \A f \in FileNames, z \in FileSizes, now \in 0 .. MaxTime :
                     SN_initiate_file_transfer(s, t, f, z, now) =>
                        ~ret'.result /\ UNCHANGED sn_vars
       /\ ret'.op = "initiate_file_transfer" /\ impl = "main" =>
            \A s \in NodeIds, t \in NodeIds :
               (s \notin DOMAIN svn_nodes \/ t \notin DOMAIN svn_nodes) =>
                  \A f \in FileNames, z \in FileSizes :
                     SVN_initiate_file_transfer(s, t, f, z) =>
                        ~ret'.result /\ UNCHANGED svn_vars
      ]_vars

\* an initiation has been refused while one node of the two was registered
C9_RefusedForNode ==
    /\ ret.op = "initiate_file_transfer"
    /\ "target" \notin DOMAIN ret
    /\ \/ Cardinality(DOMAIN sn_nodes) = 1
       \/ Cardinality(DOMAIN svn_nodes) = 1

\* C10: no call that advances a transfer changes the used_storage of a node.
C10_AdvanceKeepsStorage ==
    [][ret'.op \in {"process_file_transfer", "process_chunk_transfer"} =>
          /\ \A n \in DOMAIN sn_nodes :
                sn_nodes'[n].used_storage = sn_nodes[n].used_storage
          /\ \A n \in DOMAIN svn_nodes :
                svn_nodes'[n].used_storage = svn_nodes[n].used_storage
          /\ vnode'.used_storage = vnode.used_storage
      ]_vars

\* the used_storage of the node with this id in the implementation that runs
used_of(nodes_sn, nodes_svn, node, id) ==
    IF impl = "network" THEN nodes_sn[id].used_storage
    ELSE IF impl = "main" THEN nodes_svn[id].used_storage
    ELSE node.used_storage

\* C11 as the spec states it: the size of a transfer is counted against the
\* used_storage of its target only when the transfer completes: the call that
\* initiates a transfer leaves the used_storage of the target as it was.
C11_CountedOnlyAtCompletion ==
    [][ret'.op = "initiate_file_transfer" /\ ret'.result =>
          used_of(sn_nodes', svn_nodes', vnode', ret'.target) =
             used_of(sn_nodes, svn_nodes, vnode, ret'.target)
      ]_vars

\* C11, amended: StorageNetwork and StorageVirtualNetwork count the size of a
\* transfer against the used_storage of its target in the call that initiates
\* it, and no call that advances a transfer changes used_storage; the node of
\* storage_virtual_node.py counts nothing at initiation and adds the size in
\* the call that completes the transfer.
C11_CountedAtInitiation ==
    [][/\ ret'.op = "initiate_file_transfer" /\ ret'.result =>
            used_of(sn_nodes', svn_nodes', vnode', ret'.target) =
               used_of(sn_nodes, svn_nodes, vnode, ret'.target)
                  + (IF impl = "vnode" THEN 0 ELSE ret'.size)
       /\ ret'.op = "process_file_transfer" =>
            /\ \A n \in DOMAIN sn_nodes :
                  sn_nodes'[n].used_storage = sn_nodes[n].used_storage
            /\ \A n \in DOMAIN svn_nodes :
                  svn_nodes'[n].used_storage = svn_nodes[n].used_storage
       /\ ret'.op = "process_chunk_transfer" =>
            vnode'.used_storage - vnode.used_storage =
               LET now_stored == (DOMAIN vnode'.stored_files) \ (DOMAIN vnode.stored_files)
               IN IF now_stored = {} THEN 0
                  ELSE vnode'.stored_files[CHOOSE x \in now_stored : TRUE].total_size
      ]_vars

\* a transfer of two chunks is in progress, none of its chunks is completed,
\* and its target already counts its size
C11_CountedWhilePending ==
    /\ impl = "network"
    /\ ret.op = "initiate_file_transfer"
    /\ ret.result
    /\ ret.size > 0
    /\ sn_nodes[ret.target].used_storage = ret.size
    /\ \E s \in NodeIds :
          /\ ret.file_id \in DOMAIN transfer_operations[s]
          /\ sn_done(sn_transfers[transfer_operations[s][ret.file_id]]) = {}

\* C12: in every reachable state a transfer that is marked completed has all its
\* chunks completed: its count of transferred chunks is its count of chunks.
C12_CompletedHasAllChunks ==
    /\ \A i \in 1 .. Len(sn_transfers) :
          sn_transfers[i].status = "completed" => sn_pending(sn_transfers[i]) = {}
    /\ \A f \in DOMAIN svn_active_transfers :
          svn_active_transfers[f].completed =>
             svn_active_transfers[f].transferred_chunks = svn_active_transfers[f].total_chunks
    /\ \A m \in {vnode.active_transfers, vnode.stored_files} : \A f \in DOMAIN m :
          m[f].status = "COMPLETED" =>
             \A j \in 1 .. Len(m[f].chunks) : m[f].chunks[j].status = "COMPLETED"

\* a transfer of two chunks is marked completed
C12_TwoChunksCompleted ==
    \/ \E i \in 1 .. Len(sn_transfers) :
          /\ sn_transfers[i].status = "completed"
          /\ Len(sn_transfers[i].chunks) = 2
          /\ ret.op = "process_file_transfer"
          /\ ret.result = <<2, TRUE>>
    \/ \E f \in DOMAIN svn_active_transfers :
          svn_active_transfers[f].completed /\ svn_active_transfers[f].total_chunks = 2

\* the index a chunk carries: the idx of "<file_id>_chunk_<idx>", or chunk_id
chunk_index(chunk) ==
    IF impl = "network" THEN chunk.chunk_id[2] ELSE chunk.chunk_id

RECURSIVE SumSizes(_)
SumSizes(chunks) ==
    IF chunks = <<>> THEN 0 ELSE Head(chunks).size + SumSizes(Tail(chunks))

\* C13: for file_size > 0 the chunk list built for it has ceil(file_size /
\* chunk_size) chunks, indexed 0, 1, 2, ... in order; every chunk but the last
\* has size chunk_size, the last has file_size - (num_chunks - 1) * chunk_size,
\* and the sizes add up to file_size.
C13_ChunkListExact ==
    ret.op = "chunks" /\ ret.file_size > 0 =>
       LET n == Len(ret.chunks)
       IN /\ (n - 1) * ret.chunk_size < ret.file_size
          /\ ret.file_size <= n * ret.chunk_size
          /\ \A i \in 1 .. n : chunk_index(ret.chunks[i]) = i - 1
          /\ \A i \in 1 .. n - 1 : ret.chunks[i].size = ret.chunk_size
          /\ ret.chunks[n].size = ret.file_size - (n - 1) * ret.chunk_size
          /\ SumSizes(ret.chunks) = ret.file_size

\* a list of several chunks has been built whose last chunk is a partial one
C13_PartialLastChunk ==
    /\ ret.op = "chunks"
    /\ Len(ret.chunks) >= 3
    /\ ret.chunks[Len(ret.chunks)].size < ret.chunk_size

\* the chunk size the policy gives a file of this size
PolicyChunkSize(file_size) ==
    IF file_size < 10 * MiB THEN 512 * 1024
    ELSE IF file_size < 100 * MiB THEN 2 * MiB
    ELSE 10 * MiB

\* C14: every transfer initiated through a network has the chunk size of the
\* policy for its file_size: 512 KiB below 10 MiB, 2 MiB below 100 MiB, and
\* 10 MiB from 100 MiB on.
C14_ChunkSizeByPolicy ==
    /\ \A i \in 1 .. Len(sn_transfers) :
          sn_transfers[i].chunk_size = PolicyChunkSize(sn_transfers[i].file_size)
    /\ \A f \in DOMAIN svn_active_transfers :
          svn_active_transfers[f].chunk_size =
             PolicyChunkSize(svn_active_transfers[f].file_size)

\* the capacity of a registered node, in either network
capacity_of(id) ==
    IF impl = "network" THEN sn_nodes[id].total_storage
    ELSE svn_nodes[id].storage_capacity

\* the run of the scenario: node1 of 500 MiB, node2 of 1000 MiB, a file of
\* 100 MiB, three chunks a call
demo_scenario ==
    /\ driver.file_size = 100 * MiB
    /\ driver.chunks_per_step = 3
    /\ demo_nodes = {"node1", "node2"}
    /\ capacity_of("node1") = 500 * MiB
    /\ capacity_of("node2") = 1000 * MiB

\* C15: in the run of the scenario the initiation succeeds with 10 chunks of
\* 10 MiB; the first four calls of process_file_transfer return (3, false),
\* (3, false), (3, false), (1, true), and after the fourth the count of active
\* transfers is 0.
C15_DemoRun ==
    demo_scenario =>
       /\ ret.op = "initiate_file_transfer" =>
             /\ ret.result
             /\ impl = "network" =>
                   /\ Len(sn_transfers[1].chunks) = 10
                   /\ \A i \in 1 .. 10 : sn_transfers[1].chunks[i].size = 10 * MiB
             /\ impl = "main" =>
                   /\ svn_active_transfers[0].total_chunks = 10
                   /\ svn_active_transfers[0].chunk_size = 10 * MiB
       /\ Len(driver.out) >= 4 =>
             /\ SubSeq(driver.out, 1, 4) =
                   <<(<<3, FALSE>>), (<<3, FALSE>>), (<<3, FALSE>>), (<<1, TRUE>>)>>
             /\ impl = "network" => sn_active_transfer_count = 0
             /\ impl = "main" => svn_active_count = 0

\* C16: connect_nodes with an id that is not registered fails and records no
\* link: the connections of the node that exists and the connection table of
\* the network are as they were.
C16_ConnectUnknownRecordsNothing ==
    [][/\ ret'.op = "connect_nodes" /\ impl = "network" =>
            \A a \in NodeIds, b \in NodeIds :
               (a \notin DOMAIN sn_nodes \/ b \notin DOMAIN sn_nodes) =>
                  \A bw \in LinkBandwidths :
                     SN_connect_nodes(a, b, bw) =>
                        ret'.result = FALSE /\ UNCHANGED sn_nodes
       /\ ret'.op = "connect_nodes" /\ impl = "main" =>
            \A a \in NodeIds, b \in NodeIds :
               (a \notin DOMAIN svn_nodes \/ b \notin DOMAIN svn_nodes) =>
                  \A bw \in LinkBandwidths :
                     SVN_connect_nodes(a, b, bw) =>
                        UNCHANGED <<svn_connections, svn_nodes>>
      ]_vars

\* the limit recorded from a to b, 0 when there is none
sn_limit(nodes, a, b) ==
    IF b \in DOMAIN nodes[a].connections THEN nodes[a].connections[b] ELSE 0

svn_limit(connections, a, b) ==
    IF <<a, b>> \in DOMAIN connections THEN connections[<<a, b>>].bandwidth ELSE 0

\* C17: connect_nodes(a, b, bw) with both ids registered records bw as the
\* limit from a to b and from b to a, whatever was recorded before, and leaves
\* every other link alone; so the limit is that of the last call, and the
\* same call again changes nothing.
C17_ConnectBothWays ==
    [][/\ ret'.op = "connect_nodes" /\ impl = "network" =>
            \A a \in DOMAIN sn_nodes, b \in DOMAIN sn_nodes, bw \in LinkBandwidths :
               SN_connect_nodes(a, b, bw) =>
                  \A x \in DOMAIN sn_nodes, y \in NodeIds :
                     sn_limit(sn_nodes', x, y) =
                        IF {x, y} = {a, b} THEN bw ELSE sn_limit(sn_nodes, x, y)
       /\ ret'.op = "connect_nodes" /\ impl = "main" =>
            \A a \in DOMAIN svn_nodes, b \in DOMAIN svn_nodes, bw \in LinkBandwidths :
               SVN_connect_nodes(a, b, bw) =>
                  \A x \in NodeIds, y \in NodeIds :
                     svn_limit(svn_connections', x, y) =
                        IF {x, y} = {a, b} THEN bw ELSE svn_limit(svn_connections, x, y)
      ]_vars

\* C18: free_storage(size) leaves used_storage - size when size <= used_storage
\* and 0 when size > used_storage, never a negative value, and changes nothing
\* else of the node: not its capacity.
C18_FreeFlooredAtZero ==
    [][/\ ret'.op = "free_storage" /\ impl = "network" =>
            \A n \in DOMAIN sn_nodes, z \in FileSizes :
               SN_free_storage(n, z) =>
                  /\ sn_nodes'[n].used_storage =
                        IF z <= sn_nodes[n].used_storage
                        THEN sn_nodes[n].used_storage - z ELSE 0
                  /\ sn_nodes'[n].used_storage >= 0
                  /\ sn_nodes'[n].total_storage = sn_nodes[n].total_storage
       /\ ret'.op = "free_storage" /\ impl = "main" =>
            \A n \in DOMAIN svn_nodes, z \in FileSizes :
               SVN_free_storage(n, z) =>
                  /\ svn_nodes'[n].used_storage =
                        IF z <= svn_nodes[n].used_storage
                        THEN svn_nodes[n].used_storage - z ELSE 0
                  /\ svn_nodes'[n].used_storage >= 0
                  /\ svn_nodes'[n].storage_capacity = svn_nodes[n].storage_capacity
      ]_vars

\* free_storage has emptied a node that holds a transfer of 2 MiB in progress
C18_ReservationReleased ==
    /\ ret.op = "free_storage"
    /\ \E n \in DOMAIN sn_nodes :
          /\ sn_nodes[n].used_storage = 0
          /\ \E f \in DOMAIN sn_nodes[n].active_transfers :
                LET t == sn_transfers[sn_nodes[n].active_transfers[f]]
                IN t.file_size > 0 /\ t.status = "in_progress"

\* C19: get_storage_utilization does not fault on any node; on a node of
\* capacity 0 its percent is 0, and on a node of capacity > 0 it returns the
\* used_storage, the capacity and used / capacity * 100.
C19_UtilizationNeverFaults ==
    /\ \A n \in DOMAIN sn_nodes :
          LET u == sn_get_storage_utilization(sn_nodes[n])
          IN /\ ~u.fault
             /\ sn_nodes[n].total_storage = 0 => u.utilization_percent = Percent(0, 1)
             /\ sn_nodes[n].total_storage > 0 =>
                   /\ u.used = sn_nodes[n].used_storage
                   /\ u.capacity = sn_nodes[n].total_storage
                   /\ u.utilization_percent =
                         Percent(sn_nodes[n].used_storage, sn_nodes[n].total_storage)
    /\ \A n \in DOMAIN svn_nodes :
          LET u == svn_get_storage_utilization(svn_nodes[n])
          IN /\ ~u.fault
             /\ svn_nodes[n].storage_capacity = 0 => u.utilization_percent = Percent(0, 1)
             /\ svn_nodes[n].storage_capacity > 0 =>
                   /\ u.used = svn_nodes[n].used_storage
                   /\ u.capacity = svn_nodes[n].storage_capacity
                   /\ u.utilization_percent =
                         Percent(svn_nodes[n].used_storage, svn_nodes[n].storage_capacity)
    /\ LET u == vn_get_storage_utilization(vnode)
       IN /\ ~u.fault
          /\ vnode.total_storage = 0 => u.utilization_percent = Percent(0, 1)
          /\ vnode.total_storage > 0 =>
                /\ u.used_bytes = vnode.used_storage
                /\ u.total_bytes = vnode.total_storage
                /\ u.utilization_percent = Percent(vnode.used_storage, vnode.total_storage)

\* the number of chunks of the driver's transfer
demo_num_chunks ==
    IF impl = "network" THEN Len(sn_transfers[1].chunks)
    ELSE svn_active_transfers[driver.transfer[1]].total_chunks

\* C20: once the driver holds a transfer, its loop of process_file_transfer
\* calls with a fixed chunks_per_step >= 1 comes to a call that returns
\* completed, and no more than ceil(num_chunks / chunks_per_step) of its calls
\* move a chunk.
C20_PollingTerminates ==
    /\ (driver.transfer # <<>>) ~> (ret.op = "process_file_transfer" /\ ret.result[2])
    /\ [](driver.transfer # <<>> =>
            driver.advancing * driver.chunks_per_step
               < demo_num_chunks + driver.chunks_per_step)

\* C21: whatever integer chunks_per_step a call of process_file_transfer is
\* given, 0 and negative ones too, the number of completed chunks of a transfer
\* does not decrease and stays within 0 .. total chunks, and the number of
\* chunks the call returns is between 0 and the number that were pending.
C21_AnyStepKeepsCountInRange ==
    [][/\ ret'.op = "process_file_transfer" /\ impl = "network" =>
            /\ \A i \in 1 .. Len(sn_transfers) :
                  sn_done(sn_transfers[i]) \subseteq sn_done(sn_transfers'[i])
            /\ \A s \in NodeIds : \A f \in DOMAIN transfer_operations[s] :
                  \A t \in NodeIds, m \in ChunksPerStep :
                     SN_process_file_transfer(s, t, f, m) =>
                        /\ 0 <= ret'.result[1]
                        /\ ret'.result[1] <=
                              Cardinality(sn_pending(sn_transfers[transfer_operations[s][f]]))
       /\ ret'.op = "process_file_transfer" /\ impl = "main" =>
            \A f \in DOMAIN svn_active_transfers :
               LET before == svn_active_transfers[f]
                   after == svn_active_transfers'[f]
               IN /\ after.transferred_chunks >= before.transferred_chunks
                  /\ 0 <= after.transferred_chunks
                  /\ after.transferred_chunks <= after.total_chunks
                  /\ \A s \in NodeIds, t \in NodeIds, m \in ChunksPerStep :
                        SVN_process_file_transfer(s, t, f, m) =>
                           /\ 0 <= ret'.result[1]
                           /\ ret'.result[1] <=
                                 before.total_chunks - before.transferred_chunks
      ]_vars

\* C22: with process_file_transfer as the only call that advances a transfer of
\* the network, the completed chunks of every transfer are, in every reachable
\* state, its chunks of index 0 .. k-1 for some k, and no completed chunk
\* becomes pending again.
C22_CompletedIsPrefix ==
    /\ [](\A i \in 1 .. Len(sn_transfers) :
            sn_done(sn_transfers[i]) = 1 .. Cardinality(sn_done(sn_transfers[i])))
    /\ [][\A i \in 1 .. Len(sn_transfers) :
            sn_done(sn_transfers[i]) \subseteq sn_done(sn_transfers'[i])]_vars

\* C23: in every reachable state no transfer that is marked completed is held
\* in a collection of active transfers: not in that of the network
\* (transfer_operations, active_transfers) and not in the active_transfers of
\* the node that receives it.
C23_NoCompletedHeldActive ==
    /\ \A s \in DOMAIN transfer_operations : \A f \in DOMAIN transfer_operations[s] :
          sn_transfers[transfer_operations[s][f]].status # "completed"
    /\ \A n \in DOMAIN sn_nodes : \A f \in DOMAIN sn_nodes[n].active_transfers :
          sn_transfers[sn_nodes[n].active_transfers[f]].status # "completed"
    /\ \A f \in DOMAIN svn_active_transfers : ~svn_active_transfers[f].completed
    /\ \A f \in DOMAIN vnode.active_transfers :
          vnode.active_transfers[f].status # "COMPLETED"

====
